---- MODULE Spec2Model ----
(***************************************************************************)
(* A model of the medico backend (backend/app): the report ingestion       *)
(* pipeline (api/v1/reports.py, services/report_processor.py,              *)
(* services/groq_service.py, services/pinecone_service.py) and the         *)
(* conversation pipeline (services/chat_service.py, api/v1/chat.py).       *)
(*                                                                         *)
(* Python values are modelled as follows.  A str is a TLA+ string.  An     *)
(* Optional value is a tuple: <<>> is None and <<v>> is the value v.  A    *)
(* value produced by json.loads is a record with a field "kind".  A dict   *)
(* that the code builds itself (a stream event) is a record whose fields   *)
(* are the keys present.                                                   *)
(***************************************************************************)
EXTENDS Integers, Sequences, FiniteSets, TLC

VARIABLES
    reports,      \* table medical_reports: id -> committed row
    files,        \* upload directory: the set of paths that hold a file
    index,        \* the Pinecone index: vector id -> [values, metadata]
    completions,  \* calls made to the Groq completion endpoint
    serial,       \* the primary-key sequences of the relational store
    up,           \* upload requests: slot -> the handler's locals
    sessions,     \* table chat_sessions: id -> committed row
    messages,     \* table chat_messages: id -> committed row
    turn,         \* chat turns: slot -> the generator's locals
    users,        \* table users: the ids of the committed rows
    calls,        \* the other requests: slot -> arguments and response
    indexes       \* the indexes of the Pinecone project: name -> description

vars == <<reports, files, index, completions, serial, up, sessions, messages, turn,
          users, calls, indexes>>

-----------------------------------------------------------------------------
(* Bounds of the model *)

NumUsers == 2
MaxUploads == 2
MaxTurns == 2

Users == 1..NumUsers

-----------------------------------------------------------------------------
(* Python values *)

None == <<>>
Some(v) == <<v>>

\* bool(x) of an Optional[str]: None and "" are falsy
TruthyStr(o) == o # None /\ o[1] # ""

\* bool(x) of an Optional[int]: None and 0 are falsy
TruthyInt(o) == o # None /\ o[1] # 0

Char(s, i) == SubSeq(s, i, i)

\* s[:n]
Prefix(s, n) == SubSeq(s, 1, IF Len(s) < n THEN Len(s) ELSE n)

LowerChar(c) ==
    CASE c = "P" -> "p" [] c = "D" -> "d" [] c = "F" -> "f"
      [] c = "N" -> "n" [] c = "G" -> "g" [] c = "J" -> "j"
      [] c = "E" -> "e" [] c = "X" -> "x" [] c = "T" -> "t"
      [] OTHER -> c

RECURSIVE Lower(_)
\* str.lower()
Lower(s) == IF s = "" THEN "" ELSE LowerChar(Char(s, 1)) \o Lower(SubSeq(s, 2, Len(s)))

\* the position of the last "." of s, 0 when s has none
LastDot(s) ==
    LET dots == {i \in 1..Len(s) : Char(s, i) = "."}
    IN IF dots = {} THEN 0 ELSE CHOOSE i \in dots : \A j \in dots : j <= i

\* s.rsplit('.', 1)
RSplitDot(s) ==
    IF LastDot(s) = 0
    THEN <<s>>
    ELSE <<SubSeq(s, 1, LastDot(s) - 1), SubSeq(s, LastDot(s) + 1, Len(s))>>

\* seq[-1]
Last(seq) == seq[Len(seq)]

-----------------------------------------------------------------------------
(* Settings *)

MAX_UPLOAD_SIZE == 10 * 1024 * 1024

ALLOWED_EXTENSIONS == {"pdf", "jpg", "jpeg", "png"}

-----------------------------------------------------------------------------
(* services/report_processor.py *)

WordChars ==
    {"a","b","c","d","e","f","g","h","i","j","k","l","m","n","o","p","q","r","s","t",
     "u","v","w","x","y","z","A","B","C","D","E","F","G","H","I","J","K","L","M","N",
     "O","P","Q","R","S","T","U","V","W","X","Y","Z","0","1","2","3","4","5","6","7",
     "8","9","_"}

Whitespace == {" ", "\n", "\t", "\r"}

RECURSIVE LStrip(_)
LStrip(s) ==
    IF s # "" /\ Char(s, 1) \in Whitespace THEN LStrip(SubSeq(s, 2, Len(s))) ELSE s

RECURSIVE RStrip(_)
RStrip(s) ==
    IF s # "" /\ Char(s, Len(s)) \in Whitespace THEN RStrip(SubSeq(s, 1, Len(s) - 1)) ELSE s

\* str.strip()
Strip(s) == RStrip(LStrip(s))

RECURSIVE KeepSafe(_)
\* re.sub(r'[^\w\s.-]', '', filename)
KeepSafe(s) ==
    IF s = "" THEN ""
    ELSE (IF Char(s, 1) \in WordChars \cup Whitespace \cup {".", "-"} THEN Char(s, 1) ELSE "")
         \o KeepSafe(SubSeq(s, 2, Len(s)))

_sanitize_filename(filename) == Strip(KeepSafe(filename))

AllowedList == "pdf, jpg, jpeg, png"

\* validate_file without its size check
validate_file_any_size(filename, file_size) ==
    LET extension == Lower(Last(RSplitDot(filename)))
    IN IF extension \notin ALLOWED_EXTENSIONS
       THEN <<FALSE, Some("File type not allowed. Allowed: " \o AllowedList)>>
       ELSE <<TRUE, None>>

\* ReportProcessor.validate_file: the pair (is_valid, error_message)
validate_file(filename, file_size) ==
    LET extension == Lower(Last(RSplitDot(filename)))
    IN IF extension \notin ALLOWED_EXTENSIONS
       THEN <<FALSE, Some("File type not allowed. Allowed: " \o AllowedList)>>
       ELSE IF file_size > MAX_UPLOAD_SIZE
            THEN <<FALSE, Some("File too large. Maximum size: 10.0MB")>>
            ELSE <<TRUE, None>>

\* datetime.now().strftime("%Y%m%d_%H%M%S") at the n-th second of the run
Timestamp(n) == "T" \o ToString(n)

\* ReportProcessor.save_file up to the write: the path, or the exception raised
\* by the unpacking  name, ext = safe_filename.rsplit('.', 1)
save_file(filename, user_id, now) ==
    LET safe_filename == _sanitize_filename(filename)
        parts == RSplitDot(safe_filename)
    IN IF Len(parts) # 2
       THEN [ok |-> FALSE, error |-> "not enough values to unpack (expected 2, got 1)"]
       ELSE [ok |-> TRUE,
             path |-> "uploads/" \o ToString(user_id) \o "/" \o parts[1] \o "_"
                      \o Timestamp(now) \o "." \o parts[2]]

\* The content of an uploaded file as the extraction libraries see it: whether
\* pypdf / PIL + tesseract can read it, and the text of its pages.
Documents ==
    {[readable |-> FALSE, pages |-> <<>>]}
    \cup {[readable |-> TRUE, pages |-> p] : p \in {<<" ">>, <<"BP: 120/80">>}}

RECURSIVE PageText(_)
\* text += page.extract_text() + "\n" over the pages
PageText(pages) ==
    IF pages = <<>> THEN "" ELSE pages[1] \o "\n" \o PageText(Tail(pages))

\* ReportProcessor.extract_text_from_pdf: an unreadable file raises
extract_text_from_pdf(doc) ==
    IF doc.readable
    THEN [ok |-> TRUE, text |-> Strip(PageText(doc.pages))]
    ELSE [ok |-> FALSE, text |-> ""]

\* extract_text_from_image re-raising the OCR failure as extract_text_from_pdf does
extract_text_from_image_raises(doc) ==
    IF doc.readable
    THEN [ok |-> TRUE, text |-> Strip(PageText(doc.pages))]
    ELSE [ok |-> FALSE, text |-> ""]

\* ReportProcessor.extract_text_from_image: an OCR failure returns ""
extract_text_from_image(doc) ==
    IF doc.readable
    THEN [ok |-> TRUE, text |-> Strip(PageText(doc.pages))]
    ELSE [ok |-> TRUE, text |-> ""]

\* ReportProcessor.extract_text
extract_text(doc, file_type) ==
    IF file_type = "pdf" THEN extract_text_from_pdf(doc)
    ELSE IF file_type \in {"jpg", "jpeg", "png"} THEN extract_text_from_image(doc)
    ELSE [ok |-> FALSE, text |-> ""]

\* ReportProcessor.parse_medical_metrics on the texts of Documents: a dict as
\* the set of its (key, value) items
parse_medical_metrics(text) ==
    IF text = "BP: 120/80" THEN {<<"blood_pressure", "120/80">>} ELSE {}

-----------------------------------------------------------------------------
(* services/groq_service.py: the analysis of a report *)

WellFormedReply ==
    "{\"summary\": \"BP is normal\", \"key_findings\": [], \"abnormal_values\": [], \"recommendations\": [], \"risk_assessment\": \"low\"}"

\* What the completion endpoint answers to an analysis request: an error, or
\* the content of the reply.
AnalysisReplies ==
    {[ok |-> FALSE, content |-> ""]}
    \cup {[ok |-> TRUE, content |-> c] :
            c \in {WellFormedReply, "Your report looks normal.", "", "{\"findings\": []}",
                   "[]", "42"}}

\* json.loads on the contents of AnalysisReplies; every other text raises
\* JSONDecodeError
json_loads(text) ==
    CASE text = WellFormedReply ->
            [ok |-> TRUE,
             value |-> [kind |-> "dict",
                        value |-> [summary |-> "BP is normal", key_findings |-> <<>>,
                                   abnormal_values |-> <<>>, recommendations |-> <<>>,
                                   risk_assessment |-> "low"]]]
      [] text = "{\"findings\": []}" ->
            [ok |-> TRUE, value |-> [kind |-> "dict", value |-> [findings |-> <<>>]]]
      [] text = "[]" -> [ok |-> TRUE, value |-> [kind |-> "list", value |-> <<>>]]
      [] text = "42" -> [ok |-> TRUE, value |-> [kind |-> "int", value |-> 42]]
      [] OTHER -> [ok |-> FALSE, value |-> [kind |-> "NoneType", value |-> <<>>]]

\* GroqService.analyze_medical_report after chat_completion has answered
\* `reply`: the value returned, or ok = FALSE when the call raised
analyze_medical_report(reply) ==
    IF ~reply.ok
    THEN [ok |-> FALSE, analysis |-> [kind |-> "NoneType", value |-> <<>>]]
    ELSE LET parsed == json_loads(reply.content)
         IN IF parsed.ok
            THEN [ok |-> TRUE, analysis |-> parsed.value]
            ELSE [ok |-> TRUE,
                  analysis |-> [kind |-> "dict",
                                value |-> [summary |-> reply.content, key_findings |-> <<>>,
                                           abnormal_values |-> <<>>, recommendations |-> <<>>,
                                           risk_assessment |-> "unknown"]]]

\* dict.get(key, default)
DictGet(d, key, default) == IF key \in DOMAIN d THEN d[key] ELSE default

-----------------------------------------------------------------------------
(* services/pinecone_service.py *)

\* SentenceTransformer.encode: a deterministic function of the text
generate_embedding(text) == <<"all-MiniLM-L6-v2", text>>

\* PineconeService.upsert_medical_knowledge, the index after a successful upsert
upsert_medical_knowledge(idx, doc_id, text, metadata) ==
    LET entry == [values |-> generate_embedding(text),
                  metadata |-> [user_id |-> metadata.user_id,
                                report_id |-> metadata.report_id,
                                type |-> metadata.type,
                                text |-> Prefix(text, 500)]]
    IN [d \in DOMAIN idx \cup {doc_id} |-> IF d = doc_id THEN entry ELSE idx[d]]

\* upsert_user_report deriving the vector id from the embedded text as well
upsert_user_report_by_text(idx, report_id, user_id, report_text, report_summary) ==
    LET text_to_embed == IF TruthyStr(report_summary) THEN report_summary[1] ELSE report_text
        doc_id == "user_" \o ToString(user_id) \o "_report_" \o ToString(report_id)
                  \o "_" \o text_to_embed
        metadata == [user_id |-> user_id, report_id |-> report_id, type |-> "user_report"]
    IN upsert_medical_knowledge(idx, doc_id, text_to_embed, metadata)

\* PineconeService.upsert_user_report, the index after a successful upsert
upsert_user_report(idx, report_id, user_id, report_text, report_summary) ==
    LET text_to_embed == IF TruthyStr(report_summary) THEN report_summary[1] ELSE report_text
        doc_id == "user_" \o ToString(user_id) \o "_report_" \o ToString(report_id)
        metadata == [user_id |-> user_id, report_id |-> report_id, type |-> "user_report"]
    IN upsert_medical_knowledge(idx, doc_id, text_to_embed, metadata)

-----------------------------------------------------------------------------
(* api/v1/reports.py *)

\* The uploads a client may send: file.filename and len(file_content)
Filenames == {"r.pdf", "r.PNG", "pdf", "r.txt", "r.pdf.exe", "r$.jpg"}

FileSizes == {MAX_UPLOAD_SIZE, MAX_UPLOAD_SIZE + 1}

IdleUpload ==
    [pc |-> "idle", user_id |-> 0, filename |-> "", file_size |-> 0, now |-> 0,
     file_path |-> None, report |-> None, doc |-> None, reply |-> None,
     indexed |-> "no", response |-> None]

\* the record created with the status "processing"
MedicalReport_processing(id, user_id, filename, file_path, file_type, file_size) ==
    [id |-> id, user_id |-> user_id, filename |-> filename, file_path |-> file_path,
     file_type |-> file_type, file_size |-> file_size,
     extracted_text |-> None, parsed_metrics |-> None,
     ai_summary |-> None, ai_insights |-> None,
     processing_status |-> "processing"]

\* MedicalReport(...) of upload_report, with the column defaults of the model
MedicalReport(id, user_id, filename, file_path, file_type, file_size) ==
    [id |-> id, user_id |-> user_id, filename |-> filename, file_path |-> file_path,
     file_type |-> file_type, file_size |-> file_size,
     extracted_text |-> None, parsed_metrics |-> None,
     ai_summary |-> None, ai_insights |-> None,
     processing_status |-> "pending"]

\* the analysis without the test  if extracted_text:
ai_analysis_unguarded(report, extracted_text, reply) ==
    LET got == analyze_medical_report(reply)
    IN IF ~got.ok \/ got.analysis.kind # "dict"
       THEN [report |-> [report EXCEPT !.processing_status = "failed"], called |-> TRUE]
       ELSE [report |-> [report EXCEPT
                           !.ai_summary = Some(DictGet(got.analysis.value, "summary", "")),
                           !.ai_insights = Some(got.analysis.value),
                           !.processing_status = "completed"],
             called |-> TRUE]

\* upload_report, "# AI analysis" up to  report.processing_status = "completed",
\* with the except clause for what raises: the in-memory record after it, and
\* whether the completion endpoint was called
ai_analysis(report, extracted_text, reply) ==
    IF extracted_text = ""
    THEN [report |-> [report EXCEPT !.processing_status = "completed"], called |-> FALSE]
    ELSE LET got == analyze_medical_report(reply)
         IN IF ~got.ok \/ got.analysis.kind # "dict"
            THEN [report |-> [report EXCEPT !.processing_status = "failed"], called |-> TRUE]
            ELSE [report |-> [report EXCEPT
                                !.ai_summary = Some(DictGet(got.analysis.value, "summary", "")),
                                !.ai_insights = Some(got.analysis.value),
                                !.processing_status = "completed"],
                  called |-> TRUE]

\* upload_report, the try block of the processing and its except clause, given
\* the document and what the completion endpoint would reply
process_report(report, doc, reply) ==
    LET extracted == extract_text(doc, report.file_type)
    IN IF ~extracted.ok
       THEN [report |-> [report EXCEPT !.processing_status = "failed"], called |-> FALSE]
       ELSE ai_analysis([report EXCEPT
                           !.extracted_text = Some(extracted.text),
                           !.parsed_metrics = Some(parse_medical_metrics(extracted.text))],
                        extracted.text, reply)

\* the latest second at which a file was saved
LatestStamp ==
    LET used == {up[u].now : u \in DOMAIN up}
    IN CHOOSE n \in used \cup {0} : \A m \in used : m <= n

\* The users that have sent a request.  Users are interchangeable, so requests
\* name them in the order of their first appearance (a symmetry reduction).
UsersSeen ==
    {up[u].user_id : u \in DOMAIN up} \cup {turn[t].user_id : t \in DOMAIN turn}
    \cup {calls[c].args.user_id : c \in DOMAIN calls}

Callers == {user \in Users : \A other \in Users : other < user => other \in UsersSeen}

\* upload_report: file.read() and validate_file
UploadReceive(u, user, filename, size) ==
    /\ up[u].pc = "idle"
    /\ \A v \in DOMAIN up : v < u => up[v].pc # "idle"
    /\ user \in Callers \cap users
    /\ LET checked == validate_file(filename, size)
           req == [up[u] EXCEPT !.user_id = user, !.filename = filename, !.file_size = size]
       IN up' = [up EXCEPT ![u] =
                    IF checked[1]
                    THEN [req EXCEPT !.pc = "save"]
                    ELSE [req EXCEPT !.pc = "done",
                                     !.response = Some([status_code |-> 400,
                                                        detail |-> checked[2][1]])]]
    /\ UNCHANGED <<reports, files, index, completions, serial, sessions, messages, turn, users, calls, indexes>>

\* upload_report: save_file
UploadSaveFile(u) ==
    /\ up[u].pc = "save"
    /\ \E now \in {n \in {LatestStamp, LatestStamp + 1} : n >= 1} :
         LET saved == save_file(up[u].filename, up[u].user_id, now)
         IN IF saved.ok
            THEN /\ files' = files \cup {saved.path}
                 /\ up' = [up EXCEPT ![u].pc = "create", ![u].now = now,
                                     ![u].file_path = Some(saved.path)]
            ELSE /\ files' = files
                 /\ up' = [up EXCEPT ![u].pc = "done",
                                     ![u].response =
                                         Some([status_code |-> 500,
                                               detail |-> "Upload failed: " \o saved.error])]
    /\ UNCHANGED <<reports, index, completions, serial, sessions, messages, turn, users, calls, indexes>>

\* upload_report: the record is created pending and committed; the insert
\* violates the foreign key on users.id when the user's row is gone
UploadCreateRecord(u) ==
    /\ up[u].pc = "create"
    /\ LET id == serial.reports + 1
           file_type == Lower(Last(RSplitDot(up[u].filename)))
           report == MedicalReport(id, up[u].user_id, up[u].filename,
                                   up[u].file_path[1], file_type, up[u].file_size)
       IN IF up[u].user_id \in users
          THEN /\ reports' = (id :> report) @@ reports
               /\ serial' = [serial EXCEPT !.reports = id]
               /\ up' = [up EXCEPT ![u].pc = "process", ![u].report = Some(report)]
          ELSE /\ UNCHANGED <<reports, serial>>
               /\ up' = [up EXCEPT ![u].pc = "done",
                                   ![u].response =
                                       Some([status_code |-> 500,
                                             detail |-> "Upload failed: IntegrityError"])]
    /\ UNCHANGED <<files, index, completions, sessions, messages, turn, users, calls, indexes>>

\* upload_report: extraction, metrics and analysis, on the in-memory record
UploadProcess(u) ==
    /\ up[u].pc = "process"
    /\ \E doc \in Documents, reply \in AnalysisReplies :
         LET done == process_report(up[u].report[1], doc, reply)
         IN /\ up' = [up EXCEPT
                        ![u].pc = IF done.report.processing_status = "completed"
                                     /\ TruthyStr(done.report.ai_summary)
                                  THEN "index" ELSE "commit",
                        ![u].report = Some(done.report),
                        ![u].doc = Some(doc),
                        ![u].reply = IF done.called THEN Some(reply) ELSE None]
            /\ completions' = IF done.called
                              THEN completions \cup {<<"analysis", "upload", u>>}
                              ELSE completions
    /\ UNCHANGED <<reports, files, index, serial, sessions, messages, turn, users, calls, indexes>>

\* an upsert whose failure is raised into the handler's except clause
UploadIndex_raises(u) ==
    /\ up[u].pc = "index"
    /\ LET report == up[u].report[1]
       IN \/ /\ index' = upsert_user_report(index, report.id, up[u].user_id,
                                            report.extracted_text[1], report.ai_summary)
             /\ up' = [up EXCEPT ![u].pc = "commit", ![u].indexed = "ok"]
          \/ /\ index' = index
             /\ up' = [up EXCEPT ![u].pc = "commit", ![u].indexed = "failed",
                                 ![u].report[1].processing_status = "failed"]
    /\ UNCHANGED <<reports, files, completions, serial, sessions, messages, turn, users, calls, indexes>>

\* upload_report: upsert_user_report, which reports a failure as False
UploadIndex(u) ==
    /\ up[u].pc = "index"
    /\ LET report == up[u].report[1]
       IN \/ /\ index' = upsert_user_report(index, report.id, up[u].user_id,
                                            report.extracted_text[1], report.ai_summary)
             /\ up' = [up EXCEPT ![u].pc = "commit", ![u].indexed = "ok"]
          \/ /\ index' = index
             /\ up' = [up EXCEPT ![u].pc = "commit", ![u].indexed = "failed"]
    /\ UNCHANGED <<reports, files, completions, serial, sessions, messages, turn, users, calls, indexes>>

\* upload_report: the final commit, and the response; the UPDATE of a row
\* that was deleted meanwhile raises into the outer except clause
UploadCommit(u) ==
    /\ up[u].pc = "commit"
    /\ LET report == up[u].report[1]
       IN IF report.id \in DOMAIN reports
          THEN /\ reports' = [reports EXCEPT ![report.id] = report]
               /\ up' = [up EXCEPT ![u].pc = "done",
                                   ![u].response = Some([status_code |-> 201,
                                                         body |-> report])]
          ELSE /\ reports' = reports
               /\ up' = [up EXCEPT ![u].pc = "done",
                                   ![u].response =
                                       Some([status_code |-> 500,
                                             detail |-> "Upload failed: StaleDataError"])]
    /\ UNCHANGED <<files, index, completions, serial, sessions, messages, turn, users, calls, indexes>>

\* get_report: the response
get_report(user, report_id) ==
    IF report_id \in DOMAIN reports /\ reports[report_id].user_id = user
    THEN [status_code |-> 200, body |-> reports[report_id]]
    ELSE [status_code |-> 404, detail |-> "Report not found"]

\* get_report_analysis: the response
get_report_analysis(user, report_id) ==
    IF ~(report_id \in DOMAIN reports /\ reports[report_id].user_id = user)
    THEN [status_code |-> 404, detail |-> "Report not found"]
    ELSE IF reports[report_id].ai_insights = None
            \/ DOMAIN reports[report_id].ai_insights[1] = {}
    THEN [status_code |-> 404, detail |-> "Analysis not available for this report"]
    ELSE LET ai_insights == reports[report_id].ai_insights[1]
         IN [status_code |-> 200,
             body |-> [summary |-> DictGet(ai_insights, "summary", ""),
                       key_findings |-> DictGet(ai_insights, "key_findings", <<>>),
                       abnormal_values |-> DictGet(ai_insights, "abnormal_values", <<>>),
                       recommendations |-> DictGet(ai_insights, "recommendations", <<>>),
                       risk_assessment |-> DictGet(ai_insights, "risk_assessment", None)]]

\* get_report by any user for any id: a read, it answers and changes nothing
GetReport ==
    /\ \A user \in Users, report_id \in 0..serial.reports + 1 :
         get_report(user, report_id).status_code \in {200, 404}
    /\ UNCHANGED vars

\* get_report_analysis by any user for any id: a read
GetReportAnalysis ==
    /\ \A user \in Users, report_id \in 0..serial.reports + 1 :
         get_report_analysis(user, report_id).status_code \in {200, 404}
    /\ UNCHANGED vars

-----------------------------------------------------------------------------
(* services/pinecone_service.py: the service starts *)

\* settings.PINECONE_INDEX_NAME
PINECONE_INDEX_NAME == "medico-knowledge"

\* what create_index is asked for; `created` counts the create calls that
\* succeeded for the name
ServerlessIndex == [dimension |-> 384, metric |-> "cosine", created |-> 1]

\* Pinecone.create_index: the service refuses a name that is taken
create_index(existing, name) ==
    IF name \in DOMAIN existing
    THEN [raised |-> TRUE, indexes |-> existing]
    ELSE [raised |-> FALSE, indexes |-> (name :> ServerlessIndex) @@ existing]

\* the except clause of _ensure_index_exists re-raising instead of logging
ensure_except_raises(call) ==
    [call EXCEPT !.pc = "done", !.response = Some([status |-> "raised"])]

\* _ensure_index_exists, the clause  except Exception as e:  it logs a
\* warning and returns
ensure_except(call) == [call EXCEPT !.pc = "open"]

\* _ensure_index_exists: the names of the indexes are listed
EnsureList(c) ==
    /\ calls[c].pc = "idle"
    /\ LET req == [calls[c] EXCEPT !.op = "PineconeService"]
       IN \/ calls' = [calls EXCEPT ![c] =
                         [req EXCEPT !.pc = IF PINECONE_INDEX_NAME \in DOMAIN indexes
                                            THEN "open" ELSE "create",
                                     !.row = Some([existing_indexes |-> DOMAIN indexes,
                                                   create |-> "none"])]]
          \/ calls' = [calls EXCEPT ![c] = ensure_except(req)]
    /\ UNCHANGED <<reports, files, index, completions, serial, up, sessions, messages, turn, users,
                   indexes>>

\* _ensure_index_exists: the name was not listed and the index is created
EnsureCreate(c) ==
    /\ calls[c].pc = "create"
    /\ LET made == create_index(indexes, PINECONE_INDEX_NAME)
       IN \/ /\ ~made.raised
             /\ indexes' = made.indexes
             /\ calls' = [calls EXCEPT ![c].pc = "open", ![c].row[1].create = "created"]
          \/ /\ made.raised
             /\ indexes' = indexes
             /\ calls' = [calls EXCEPT ![c] =
                            ensure_except([calls[c] EXCEPT !.row[1].create = "conflict"])]
          \/ /\ indexes' = indexes
             /\ calls' = [calls EXCEPT ![c] =
                            ensure_except([calls[c] EXCEPT !.row[1].create = "failed"])]
    /\ UNCHANGED <<reports, files, index, completions, serial, up, sessions, messages, turn, users>>

\* __init__: self.pc.Index(self.index_name) resolves the host of the index
\* and raises when there is no index of that name
OpenIndex(c) ==
    /\ calls[c].pc = "open"
    /\ calls' = [calls EXCEPT ![c].pc = "done",
                              ![c].response =
                                  Some([status |-> IF PINECONE_INDEX_NAME \in DOMAIN indexes
                                                   THEN "initialized" ELSE "raised"])]
    /\ UNCHANGED <<reports, files, index, completions, serial, up, sessions, messages, turn, users,
                   indexes>>

-----------------------------------------------------------------------------
(* services/groq_service.py: the chat context *)

SystemPrompt == "You are MedicoChatbot, a friendly and knowledgeable AI medical assistant.\n"

RECURSIVE Join(_, _)
\* sep.join(parts)
Join(sep, parts) ==
    IF parts = <<>> THEN ""
    ELSE IF Len(parts) = 1 THEN parts[1]
    ELSE parts[1] \o sep \o Join(sep, Tail(parts))

\* seq[-n:]
Suffix(seq, n) == IF Len(seq) <= n THEN seq ELSE SubSeq(seq, Len(seq) - n + 1, Len(seq))

HistoryWindow == 10

\* build_medical_chat_context appending the retrieved knowledge before the
\* report summaries
build_context_knowledge_first(user_question, chat_history, medical_reports, rag_context) ==
    LET with_knowledge ==
            IF TruthyStr(rag_context)
            THEN SystemPrompt \o "\n\nRelevant Medical Knowledge:\n" \o rag_context[1]
            ELSE SystemPrompt
        system_prompt ==
            IF medical_reports # None /\ medical_reports[1] # <<>>
            THEN with_knowledge \o "\n\nUser's Medical Reports:\n"
                 \o Join("\n\n", medical_reports[1])
            ELSE with_knowledge
    IN <<[role |-> "system", content |-> system_prompt]>>
       \o Suffix(chat_history, HistoryWindow)
       \o <<[role |-> "user", content |-> user_question]>>

\* GroqService.build_medical_chat_context
build_medical_chat_context(user_question, chat_history, medical_reports, rag_context) ==
    LET with_reports ==
            IF medical_reports # None /\ medical_reports[1] # <<>>
            THEN SystemPrompt \o "\n\nUser's Medical Reports:\n" \o Join("\n\n", medical_reports[1])
            ELSE SystemPrompt
        system_prompt ==
            IF TruthyStr(rag_context)
            THEN with_reports \o "\n\nRelevant Medical Knowledge:\n" \o rag_context[1]
            ELSE with_reports
    IN <<[role |-> "system", content |-> system_prompt]>>
       \o Suffix(chat_history, HistoryWindow)
       \o <<[role |-> "user", content |-> user_question]>>

-----------------------------------------------------------------------------
(* services/chat_service.py *)

LongQuestion == "My doctor said my blood pressure is high, what should I do?"

\* ChatRequest.message
Questions == {LongQuestion}

MaxSessionId == 1

\* ChatRequest.session_id: Optional[int]
SessionIds == {None} \cup {Some(n) : n \in 0..MaxSessionId}

\* What the completion endpoint streams for a chat: the delta.content of each
\* frame, None or "" for a frame without text
Streams == {<<>>, <<Some("Your BP "), None, Some("is fine.")>>}

IdleTurn ==
    [pc |-> "idle", user_id |-> 0, session_id |-> None, message |-> "",
     include_reports |-> FALSE, session |-> None, user_message_id |-> None,
     results |-> <<>>, messages |-> <<>>,
     stream |-> <<>>, full_response |-> "", events |-> <<>>, raised |-> FALSE,
     response |-> None]

\* the except clause re-raising instead of yielding the error event
chat_stream_except_raises(tr, e) == [tr EXCEPT !.pc = "done", !.raised = TRUE]

\* chat_stream, the clause  except Exception as e:  it yields the error event
chat_stream_except(tr, e) ==
    [tr EXCEPT !.pc = "done",
               !.events = Append(@, [content |-> "Error: " \o e, done |-> TRUE,
                                     error |-> TRUE])]

\* the ids of the rows of a table in ascending order
RECURSIVE Ascending(_)
Ascending(ids) ==
    IF ids = {} THEN <<>>
    ELSE LET least == CHOOSE i \in ids : \A j \in ids : i <= j
         IN <<least>> \o Ascending(ids \ {least})

RECURSIVE Reversed(_)
\* list(reversed(seq))
Reversed(seq) == IF seq = <<>> THEN <<>> ELSE Reversed(Tail(seq)) \o <<seq[1]>>

HistoryLimit == 20

\* get_chat_history without the reversal
get_chat_history_newest_first(session, limit) ==
    LET mine == Ascending({m \in DOMAIN messages : messages[m].session_id = session.id})
        rows == Prefix(Reversed(mine), limit)
    IN [i \in 1..Len(rows) |->
          [role |-> messages[rows[i]].role, content |-> messages[rows[i]].content]]

\* ChatService.get_chat_history when the query succeeds: the newest `limit`
\* messages of the session, reversed into chronological order
get_chat_history(session, limit) ==
    LET mine == Ascending({m \in DOMAIN messages : messages[m].session_id = session.id})
        newest_first == Prefix(Reversed(mine), limit)
        rows == Reversed(newest_first)
    IN [i \in 1..Len(rows) |->
          [role |-> messages[rows[i]].role, content |-> messages[rows[i]].content]]

\* report.created_at.strftime('%Y-%m-%d'): a run lasts less than a day
strftime(created_at) == "2024-01-01"

ReportsLimit == 5

\* ChatService.get_user_reports_summary when the query succeeds
get_user_reports_summary(user, limit) ==
    LET mine == Ascending({r \in DOMAIN reports :
                             reports[r].user_id = user /\ reports[r].ai_summary # None})
        newest_first == Prefix(Reversed(mine), limit)
    IN [i \in 1..Len(newest_first) |->
          "Report from " \o strftime(reports[newest_first[i]].id) \o ": "
          \o reports[newest_first[i]].ai_summary[1]]

\* PineconeService.search_medical_knowledge: the filter handed to index.query;
\* "all" stands for filter=None and for the empty filter {}
search_filter(user_id, include_user_reports) ==
    IF TruthyInt(user_id) /\ include_user_reports THEN "all"
    ELSE IF TruthyInt(user_id) THEN "not_user_report"
    ELSE "all"

\* the ids of the index entries a query under `filter` may return
Matching(filter) ==
    {d \in DOMAIN index : filter = "all" \/ index[d].metadata.type # "user_report"}

RagTopK == 3

\* PineconeService.search_medical_knowledge: the matches it formats from the
\* ranked ids the index returned
search_medical_knowledge(ranked) ==
    [i \in 1..Len(ranked) |->
       [id |-> ranked[i], text |-> index[ranked[i]].metadata.text,
        metadata |-> index[ranked[i]].metadata]]

\* ChatService.get_rag_context given the ranked ids the index returned
get_rag_context(ranked) ==
    IF ranked = <<>> THEN None
    ELSE Some(Join("\n\n", [i \in 1..Len(ranked) |->
                              ToString(i) \o ". " \o index[ranked[i]].metadata.text]))

\* the rankings of at most top_k of the entries in `ids`, best first
Rankings(ids, top_k) ==
    LET n == IF Cardinality(ids) < top_k THEN Cardinality(ids) ELSE top_k
    IN {r \in [1..n -> ids] : \A i, j \in 1..n : i # j => r[i] # r[j]}

\* get_or_create_session continuing the caller's latest session when the
\* request names none
GetOrCreateSession_continues_latest(t, user, session_id) ==
    /\ turn[t].pc = "idle"
    /\ \A v \in DOMAIN turn : v < t => turn[v].pc # "idle"
    /\ user \in Callers \cap users
    /\ LET req == [turn[t] EXCEPT !.user_id = user, !.session_id = session_id]
           mine == {x \in DOMAIN sessions : sessions[x].user_id = user}
           id == serial.sessions + 1
           session == [id |-> id, user_id |-> user, title |-> None, updated_at |-> 0]
       IN IF mine # {}
          THEN /\ UNCHANGED <<sessions, serial>>
               /\ turn' = [turn EXCEPT ![t] =
                             [req EXCEPT !.pc = "save_user",
                                         !.session = Some(sessions[Last(Ascending(mine))])]]
          ELSE /\ sessions' = (id :> session) @@ sessions
               /\ serial' = [serial EXCEPT !.sessions = id]
               /\ turn' = [turn EXCEPT ![t] =
                             [req EXCEPT !.pc = "save_user", !.session = Some(session)]]
    /\ UNCHANGED <<reports, files, index, completions, up, messages, users, calls, indexes>>

\* ChatService.get_or_create_session, with the request's session_id
GetOrCreateSession(t, user, session_id) ==
    /\ turn[t].pc = "idle"
    /\ \A v \in DOMAIN turn : v < t => turn[v].pc # "idle"
    /\ user \in Callers \cap users
    /\ LET req == [turn[t] EXCEPT !.user_id = user, !.session_id = session_id]
       IN IF TruthyInt(session_id)
          THEN /\ UNCHANGED <<sessions, serial>>
               /\ \/ /\ session_id[1] \in DOMAIN sessions
                     /\ sessions[session_id[1]].user_id = user
                     /\ turn' = [turn EXCEPT ![t] =
                                   [req EXCEPT !.pc = "save_user",
                                               !.session = Some(sessions[session_id[1]])]]
                  \/ /\ ~(session_id[1] \in DOMAIN sessions
                          /\ sessions[session_id[1]].user_id = user)
                     /\ turn' = [turn EXCEPT ![t] =
                                   chat_stream_except(req, "Session " \o ToString(session_id[1])
                                                           \o " not found for user")]
                  \/ turn' = [turn EXCEPT ![t] = chat_stream_except(req, "database error")]
          ELSE \/ LET id == serial.sessions + 1
                      session == [id |-> id, user_id |-> user, title |-> None, updated_at |-> 0]
                  IN /\ sessions' = (id :> session) @@ sessions
                     /\ serial' = [serial EXCEPT !.sessions = id]
                     /\ turn' = [turn EXCEPT ![t] =
                                   [req EXCEPT !.pc = "save_user", !.session = Some(session)]]
               \/ /\ UNCHANGED <<sessions, serial>>
                  /\ turn' = [turn EXCEPT ![t] = chat_stream_except(req, "database error")]
    /\ UNCHANGED <<reports, files, index, completions, up, messages, users, calls, indexes>>

\* save_message writing the row into the oldest session
save_message_oldest_session(session, role, content, t) ==
    LET id == serial.messages + 1
        oldest == CHOOSE x \in DOMAIN sessions : \A y \in DOMAIN sessions : x <= y
    IN (id :> [id |-> id, session_id |-> oldest, role |-> role, content |-> content,
               turn |-> t])
       @@ messages

\* save_message storing every message under the role of the user
save_message_as_user(session, role, content, t) ==
    LET id == serial.messages + 1
    IN (id :> [id |-> id, session_id |-> session.id, role |-> "user", content |-> content,
               turn |-> t])
       @@ messages

\* ChatService.save_message: the table after the commit; the commit fails on
\* the foreign key when the session's row is gone
save_message(session, role, content, t) ==
    LET id == serial.messages + 1
    IN (id :> [id |-> id, session_id |-> session.id, role |-> role, content |-> content,
               turn |-> t])
       @@ messages

\* chat_stream going on to the title and the context without saving the user
\* message
SaveUserMessage_skipped(t, message) ==
    /\ turn[t].pc = "save_user"
    /\ turn' = [turn EXCEPT ![t].message = message,
                            ![t].pc = IF TruthyStr(turn[t].session[1].title)
                                      THEN "context" ELSE "title"]
    /\ UNCHANGED <<reports, files, index, completions, serial, up, sessions, messages, users, calls, indexes>>

\* chat_stream: the user message is saved
SaveUserMessage(t, message) ==
    /\ turn[t].pc = "save_user"
    /\ LET req == [turn[t] EXCEPT !.message = message]
       IN \/ /\ turn[t].session[1].id \in DOMAIN sessions
             /\ messages' = save_message(turn[t].session[1], "user", message, t)
             /\ serial' = [serial EXCEPT !.messages = @ + 1]
             /\ turn' = [turn EXCEPT ![t] =
                           [req EXCEPT !.pc = IF TruthyStr(turn[t].session[1].title)
                                              THEN "context" ELSE "title",
                                       !.user_message_id = Some(serial.messages + 1)]]
          \/ /\ UNCHANGED <<messages, serial>>
             /\ turn' = [turn EXCEPT ![t] = chat_stream_except(req, "database error")]
    /\ UNCHANGED <<reports, files, index, completions, up, sessions, users, calls, indexes>>

TitleLength == 50

\* ChatService.generate_session_title: a failed commit is logged and swallowed
GenerateSessionTitle(t) ==
    /\ turn[t].pc = "title"
    /\ LET first_message == turn[t].message
           title == IF Len(first_message) > TitleLength
                    THEN Prefix(first_message, TitleLength) \o "..."
                    ELSE Prefix(first_message, TitleLength)
           id == turn[t].session[1].id
       IN /\ turn' = [turn EXCEPT ![t].pc = "context", ![t].session[1].title = Some(title)]
          /\ \/ /\ id \in DOMAIN sessions
                /\ sessions' = [sessions EXCEPT ![id].title = Some(title),
                                                ![id].updated_at = @ + 1]
             \/ sessions' = sessions
    /\ UNCHANGED <<reports, files, index, completions, serial, up, messages, users, calls, indexes>>

\* chat_stream: history, report summaries, retrieval and the prompt; each of
\* the three reads answers with nothing when it fails
AssembleContext(t, include_reports) ==
    /\ turn[t].pc = "context"
    /\ \E history \in {get_chat_history(turn[t].session[1], HistoryLimit), <<>>},
          found \in Rankings(Matching(search_filter(
                                 IF include_reports THEN Some(turn[t].user_id) ELSE None,
                                 TRUE)), RagTopK) \cup {<<>>} :
         LET summaries == IF include_reports
                          THEN get_user_reports_summary(turn[t].user_id, ReportsLimit)
                          ELSE <<>>
         IN \E medical_reports \in {summaries, <<>>} :
              turn' = [turn EXCEPT
                         ![t].pc = "open",
                         ![t].include_reports = include_reports,
                         ![t].results = search_medical_knowledge(found),
                         ![t].messages =
                             build_medical_chat_context(
                                 turn[t].message, history,
                                 IF medical_reports # <<>> THEN Some(medical_reports) ELSE None,
                                 get_rag_context(found))]
    /\ UNCHANGED <<reports, files, index, completions, serial, up, sessions, messages, users, calls, indexes>>

\* GroqService.chat_completion_stream: the request is sent
OpenStream(t) ==
    /\ turn[t].pc = "open"
    /\ completions' = completions \cup {<<"stream", "turn", t>>}
    /\ \/ \E stream \in Streams :
            turn' = [turn EXCEPT ![t].pc = "streaming", ![t].stream = stream]
       \/ turn' = [turn EXCEPT ![t] = chat_stream_except(turn[t], "completion error")]
    /\ UNCHANGED <<reports, files, index, serial, up, sessions, messages, users, calls, indexes>>

\* the loop body assigning the chunk to the buffer instead of appending it
stream_chunk_overwrites(tr, chunk) ==
    [tr EXCEPT !.full_response = chunk,
               !.events = Append(@, [content |-> chunk, done |-> FALSE,
                                     session_id |-> tr.session[1].id])]

\* chat_stream, the body of  async for chunk in ...: the chunk is buffered
\* and yielded
stream_chunk(tr, chunk) ==
    [tr EXCEPT !.full_response = @ \o chunk,
               !.events = Append(@, [content |-> chunk, done |-> FALSE,
                                     session_id |-> tr.session[1].id])]

\* one frame of the completion stream: chat_completion_stream skips a frame
\* without text and yields the text of the others
StreamFrame(t) ==
    /\ turn[t].pc = "streaming"
    /\ turn[t].stream # <<>>
    /\ LET delta == Head(turn[t].stream)
           rest == [turn[t] EXCEPT !.stream = Tail(@)]
       IN turn' = [turn EXCEPT ![t] = IF TruthyStr(delta)
                                      THEN stream_chunk(rest, delta[1])
                                      ELSE rest]
    /\ UNCHANGED <<reports, files, index, completions, serial, up, sessions, messages, users, calls, indexes>>

\* a broken stream whose partial buffer is saved before the error event
StreamError_saves_partial(t) ==
    /\ turn[t].pc = "streaming"
    /\ turn[t].session[1].id \in DOMAIN sessions
    /\ messages' = (serial.messages + 1 :>
                      [id |-> serial.messages + 1, session_id |-> turn[t].session[1].id,
                       role |-> "assistant", content |-> turn[t].full_response, turn |-> t])
                   @@ messages
    /\ serial' = [serial EXCEPT !.messages = @ + 1]
    /\ turn' = [turn EXCEPT ![t] = chat_stream_except(turn[t], "completion error")]
    /\ UNCHANGED <<reports, files, index, completions, up, sessions, users, calls, indexes>>

\* the stream breaks: chat_completion_stream raises
StreamError(t) ==
    /\ turn[t].pc = "streaming"
    /\ turn' = [turn EXCEPT ![t] = chat_stream_except(turn[t], "completion error")]
    /\ UNCHANGED <<reports, files, index, completions, serial, up, sessions, messages, users, calls, indexes>>

\* the consumer of the events goes away while the completion is streamed:
\* the generator is closed where it is suspended, which `except Exception`
\* does not catch
CloseStream(t) ==
    /\ turn[t].pc = "streaming"
    /\ turn' = [turn EXCEPT ![t].pc = "closed"]
    /\ UNCHANGED <<reports, files, index, completions, serial, up, sessions, messages, users, calls, indexes>>

\* chat_stream: the stream has ended, the assistant message is saved and the
\* final chunk is yielded
SaveAssistantMessage(t) ==
    /\ turn[t].pc = "streaming"
    /\ turn[t].stream = <<>>
    /\ \/ /\ turn[t].session[1].id \in DOMAIN sessions
          /\ messages' = save_message(turn[t].session[1], "assistant",
                                      turn[t].full_response, t)
          /\ serial' = [serial EXCEPT !.messages = @ + 1]
          /\ turn' = [turn EXCEPT
                        ![t].pc = "done",
                        ![t].events = Append(@, [content |-> "", done |-> TRUE,
                                                 session_id |-> turn[t].session[1].id,
                                                 message_id |-> serial.messages + 1])]
       \/ /\ UNCHANGED <<messages, serial>>
          /\ turn' = [turn EXCEPT ![t] = chat_stream_except(turn[t], "database error")]
    /\ UNCHANGED <<reports, files, index, completions, up, sessions, users, calls, indexes>>

-----------------------------------------------------------------------------
(* api/v1/chat.py: the request that does not stream *)

RECURSIVE consume(_, _)
\* send_message, the loop  async for chunk in chat_service.chat_stream(...)
\* of the branch without streaming
consume(acc, events) ==
    IF events = <<>> THEN acc
    ELSE LET chunk == Head(events)
             full_response == IF "content" \in DOMAIN chunk /\ chunk.content # ""
                              THEN acc.full_response \o chunk.content
                              ELSE acc.full_response
             session_id == IF "session_id" \in DOMAIN chunk /\ chunk.session_id # 0
                           THEN Some(chunk.session_id) ELSE acc.session_id
             message_id == IF "message_id" \in DOMAIN chunk /\ chunk.message_id # 0
                           THEN Some(chunk.message_id) ELSE acc.message_id
         IN consume([full_response |-> full_response, session_id |-> session_id,
                     message_id |-> message_id], Tail(events))

\* ChatMessageResponse.from_orm(message)
ChatMessageResponse(message) ==
    [id |-> message.id, session_id |-> message.session_id, role |-> message.role,
     content |-> message.content]

\* send_message without streaming: what the request answers once chat_stream
\* has yielded `events`
send_message(events) ==
    LET seen == consume([full_response |-> "", session_id |-> None, message_id |-> None],
                        events)
    IN IF seen.message_id # None
       THEN IF seen.message_id[1] \in DOMAIN messages
            THEN [status |-> 200,
                  message |-> ChatMessageResponse(messages[seen.message_id[1]]),
                  session_id |-> seen.session_id]
            ELSE [status |-> 500, detail |-> "Chat error: No row was found when one was required"]
       ELSE [status |-> 500, detail |-> "Chat error: 500: Failed to save message"]

\* send_message without streaming: the generator is exhausted and the request
\* answers
SendMessageReturn(t) ==
    /\ turn[t].pc = "done"
    /\ turn[t].response = None
    /\ turn' = [turn EXCEPT ![t].response = Some(send_message(turn[t].events))]
    /\ UNCHANGED <<reports, files, index, completions, serial, up, sessions, messages, users, calls, indexes>>

-----------------------------------------------------------------------------
(* Requests other than an upload and a chat turn *)

MaxCalls == 3

IdleCall ==
    [pc |-> "idle", op |-> "", args |-> [user_id |-> 0], row |-> None, response |-> None]

\* the arguments of upsert_user_report
MaxReportId == 2

ReportTexts == {"BP: 120/80", "BP: 150/95"}

ReportSummaries == {None, Some(""), Some("Blood pressure is normal.")}

\* a call of PineconeService.upsert_user_report: it answers True after the
\* upsert and False when the embedding or the upsert failed
UpsertUserReport(c, report_id, user_id, report_text, report_summary) ==
    /\ calls[c].pc = "idle"
    /\ \A b \in DOMAIN calls : b < c => calls[b].pc # "idle"
    /\ user_id \in Callers
    /\ \E ok \in BOOLEAN :
         /\ index' = IF ok
                     THEN upsert_user_report(index, report_id, user_id,
                                             report_text, report_summary)
                     ELSE index
         /\ calls' = [calls EXCEPT ![c] =
                        [pc |-> "done", op |-> "upsert_user_report",
                         args |-> [report_id |-> report_id, user_id |-> user_id,
                                   report_text |-> report_text,
                                   report_summary |-> report_summary],
                         row |-> None,
                         response |-> Some(ok)]]
    /\ UNCHANGED <<reports, files, completions, serial, up, sessions, messages, turn, users, indexes>>

\* the rows of a table whose key is in `keep`
Restrict(table, keep) == [k \in DOMAIN table \cap keep |-> table[k]]

\* ReportProcessor.delete_file: the upload directory afterwards; an error of
\* unlink is logged and answered with False
delete_file(file_path, unlinked) == IF unlinked THEN files \ {file_path} ELSE files

\* delete_report of api/v1/reports.py: the file is unlinked, then the row is
\* deleted; the index is not touched
DeleteReport(c, user, report_id) ==
    /\ calls[c].pc = "idle"
    /\ \A b \in DOMAIN calls : b < c => calls[b].pc # "idle"
    /\ user \in Callers \cap users
    /\ LET req == [calls[c] EXCEPT !.pc = "done", !.op = "delete_report",
                                   !.args = [user_id |-> user, report_id |-> report_id]]
       IN IF ~(report_id \in DOMAIN reports /\ reports[report_id].user_id = user)
          THEN /\ calls' = [calls EXCEPT ![c] = [req EXCEPT !.response = Some(404)]]
               /\ UNCHANGED <<files, reports>>
          ELSE \E unlinked, committed \in BOOLEAN :
                 /\ files' = delete_file(reports[report_id].file_path, unlinked)
                 /\ reports' = IF committed
                               THEN Restrict(reports, DOMAIN reports \ {report_id})
                               ELSE reports
                 /\ calls' = [calls EXCEPT ![c] =
                                [req EXCEPT !.row = Some(reports[report_id]),
                                            !.response = Some(IF committed THEN 204 ELSE 500)]]
    /\ UNCHANGED <<index, completions, serial, up, sessions, messages, turn, users, indexes>>

\* the cascade delete-orphan of ChatSession.messages
delete_session_rows(session_id) ==
    [sessions |-> Restrict(sessions, DOMAIN sessions \ {session_id}),
     messages |-> Restrict(messages, {m \in DOMAIN messages :
                                        messages[m].session_id # session_id})]

\* delete_session of api/v1/chat.py
DeleteSession(c, user, session_id) ==
    /\ calls[c].pc = "idle"
    /\ \A b \in DOMAIN calls : b < c => calls[b].pc # "idle"
    /\ user \in Callers \cap users
    /\ LET req == [calls[c] EXCEPT !.pc = "done", !.op = "delete_session",
                                   !.args = [user_id |-> user, session_id |-> session_id]]
       IN IF ~(session_id \in DOMAIN sessions /\ sessions[session_id].user_id = user)
          THEN /\ calls' = [calls EXCEPT ![c] = [req EXCEPT !.response = Some(404)]]
               /\ UNCHANGED <<sessions, messages>>
          ELSE \E committed \in BOOLEAN :
                 /\ sessions' = IF committed THEN delete_session_rows(session_id).sessions
                                ELSE sessions
                 /\ messages' = IF committed THEN delete_session_rows(session_id).messages
                                ELSE messages
                 /\ calls' = [calls EXCEPT ![c] =
                                [req EXCEPT !.row = Some(sessions[session_id]),
                                            !.response = Some(IF committed THEN 204 ELSE 500)]]
    /\ UNCHANGED <<reports, files, index, completions, serial, up, turn, users, indexes>>

\* PineconeService.delete_user_reports: the index after a successful delete
\* by the filter {'user_id': user_id, 'type': 'user_report'}
delete_user_reports(idx, user_id) ==
    Restrict(idx, {d \in DOMAIN idx : ~(/\ idx[d].metadata.user_id = user_id
                                        /\ idx[d].metadata.type = "user_report")})

\* a user deleted without the cascade to the messages of its sessions
delete_user_keeps_messages(user) ==
    [users |-> users \ {user},
     sessions |-> Restrict(sessions, {x \in DOMAIN sessions : sessions[x].user_id # user}),
     messages |-> messages,
     reports |-> Restrict(reports, {r \in DOMAIN reports : reports[r].user_id # user})]

\* AuthService.delete_user when the commit succeeds: the user's row, and by
\* the cascades of User.chat_sessions, User.medical_reports and
\* ChatSession.messages the rows that belong to it
delete_user(user) ==
    LET kept == {x \in DOMAIN sessions : sessions[x].user_id # user}
    IN [users |-> users \ {user},
        sessions |-> Restrict(sessions, kept),
        messages |-> Restrict(messages, {m \in DOMAIN messages :
                                           messages[m].session_id \in kept}),
        reports |-> Restrict(reports, {r \in DOMAIN reports : reports[r].user_id # user})]

\* delete_my_account of api/v1/users.py: delete_user_reports, whose answer is
\* not looked at, then delete_user, whose False becomes the response 500
DeleteMyAccount(c, user) ==
    /\ calls[c].pc = "idle"
    /\ \A b \in DOMAIN calls : b < c => calls[b].pc # "idle"
    /\ user \in Callers \cap users
    /\ \E purged, success \in BOOLEAN :
         LET after == delete_user(user)
         IN /\ index' = IF purged THEN delete_user_reports(index, user) ELSE index
            /\ users' = IF success THEN after.users ELSE users
            /\ sessions' = IF success THEN after.sessions ELSE sessions
            /\ messages' = IF success THEN after.messages ELSE messages
            /\ reports' = IF success THEN after.reports ELSE reports
            /\ calls' = [calls EXCEPT ![c] =
                           [pc |-> "done", op |-> "delete_my_account",
                            args |-> [user_id |-> user], row |-> None,
                            response |-> Some(IF success THEN 204 ELSE 500)]]
    /\ UNCHANGED <<files, completions, serial, up, turn, indexes>>

-----------------------------------------------------------------------------
(* Specifications *)

EmptyStore ==
    /\ reports = <<>>
    /\ files = {}
    /\ index = <<>>
    /\ completions = {}
    /\ serial = [reports |-> 0, sessions |-> 0, messages |-> 0]
    /\ sessions = <<>>
    /\ messages = <<>>
    /\ users = Users

\* the ingestion pipeline under MaxUploads concurrent uploads
InitIngest ==
    /\ EmptyStore
    /\ indexes = PINECONE_INDEX_NAME :> ServerlessIndex
    /\ up = [u \in 1..MaxUploads |-> IdleUpload]
    /\ turn = <<>>
    /\ calls = <<>>

NextIngest ==
    \/ \E u \in DOMAIN up, user \in Users, filename \in Filenames, size \in FileSizes :
         UploadReceive(u, user, filename, size)
    \/ \E u \in DOMAIN up : UploadSaveFile(u)
    \/ \E u \in DOMAIN up : UploadCreateRecord(u)
    \/ \E u \in DOMAIN up : UploadProcess(u)
    \/ \E u \in DOMAIN up : UploadIndex(u)
    \/ \E u \in DOMAIN up : UploadCommit(u)
    \/ GetReport
    \/ GetReportAnalysis

SpecIngest == InitIngest /\ [][NextIngest]_vars

\* the conversation pipeline under MaxTurns concurrent turns
InitChat ==
    /\ EmptyStore
    /\ indexes = PINECONE_INDEX_NAME :> ServerlessIndex
    /\ up = <<>>
    /\ turn = [t \in 1..MaxTurns |-> IdleTurn]
    /\ calls = <<>>

NextChat ==
    \/ \E t \in DOMAIN turn, user \in Users, session_id \in SessionIds :
         GetOrCreateSession(t, user, session_id)
    \/ \E t \in DOMAIN turn, message \in Questions : SaveUserMessage(t, message)
    \/ \E t \in DOMAIN turn : GenerateSessionTitle(t)
    \/ \E t \in DOMAIN turn, include_reports \in BOOLEAN : AssembleContext(t, include_reports)
    \/ \E t \in DOMAIN turn : OpenStream(t)
    \/ \E t \in DOMAIN turn : StreamFrame(t)
    \/ \E t \in DOMAIN turn : StreamError(t)
    \/ \E t \in DOMAIN turn : SaveAssistantMessage(t)

SpecChat == InitChat /\ [][NextChat]_vars

\* the knowledge index under MaxCalls upserts
InitIndex ==
    /\ EmptyStore
    /\ indexes = PINECONE_INDEX_NAME :> ServerlessIndex
    /\ up = <<>>
    /\ turn = <<>>
    /\ calls = [c \in 1..MaxCalls |-> IdleCall]

NextIndex ==
    \E c \in DOMAIN calls, report_id \in 1..MaxReportId, user_id \in Users,
       report_text \in ReportTexts, report_summary \in ReportSummaries :
        UpsertUserReport(c, report_id, user_id, report_text, report_summary)

SpecIndex == InitIndex /\ [][NextIndex]_vars

\* one upload of a PDF, one turn and one deletion side by side
InitAccount ==
    /\ EmptyStore
    /\ indexes = PINECONE_INDEX_NAME :> ServerlessIndex
    /\ up = [u \in 1..1 |-> IdleUpload]
    /\ turn = [t \in 1..1 |-> IdleTurn]
    /\ calls = [c \in 1..1 |-> IdleCall]

NextAccount ==
    \/ \E u \in DOMAIN up, user \in Users :
         UploadReceive(u, user, "r.pdf", MAX_UPLOAD_SIZE)
    \/ \E u \in DOMAIN up : UploadSaveFile(u)
    \/ \E u \in DOMAIN up : UploadCreateRecord(u)
    \/ \E u \in DOMAIN up : UploadProcess(u)
    \/ \E u \in DOMAIN up : UploadIndex(u)
    \/ \E u \in DOMAIN up : UploadCommit(u)
    \/ NextChat
    \/ \E c \in DOMAIN calls, user \in Users, report_id \in 0..serial.reports :
         DeleteReport(c, user, report_id)
    \/ \E c \in DOMAIN calls, user \in Users, session_id \in 0..serial.sessions :
         DeleteSession(c, user, session_id)
    \/ \E c \in DOMAIN calls, user \in Users : DeleteMyAccount(c, user)

SpecAccount == InitAccount /\ [][NextAccount]_vars

\* A turn over a store that earlier uploads and turns have filled.
\* StoredMessages: how many messages are stored; every Shared-th of them (none
\* when Shared = 0) belongs to session 2, the others to session 1.
StoredMessages == {0, 3, 9, 12, 30}

SharedEvery == {0, 3}

\* the owners of the stored reports, in the order of their upload
StoredReports == {<<>>, <<1, 2>>, <<1, 1, 1, 1, 1, 1>>}

StoredMessage(i, every) ==
    [id |-> i, session_id |-> IF every > 0 /\ i % every = 0 THEN 2 ELSE 1,
     role |-> IF i % 2 = 1 THEN "user" ELSE "assistant",
     content |-> "m" \o ToString(i), turn |-> 0]

StoredReport(i, owner) ==
    [MedicalReport(i, owner, "r.pdf", save_file("r.pdf", owner, i).path, "pdf",
                   MAX_UPLOAD_SIZE)
       EXCEPT !.extracted_text = Some("BP: 120/80"),
              !.parsed_metrics = Some(parse_medical_metrics("BP: 120/80")),
              !.ai_summary = Some("summary " \o ToString(i)),
              !.ai_insights = Some([summary |-> "summary " \o ToString(i)]),
              !.processing_status = "completed"]

RECURSIVE StoredIndex(_, _)
StoredIndex(owners, n) ==
    IF n = 0 THEN <<>>
    ELSE upsert_user_report(StoredIndex(owners, n - 1), n, owners[n], "BP: 120/80",
                            Some("summary " \o ToString(n)))

InitPrompt ==
    \E n \in StoredMessages, every \in SharedEvery, owners \in StoredReports :
        /\ reports = [i \in 1..Len(owners) |-> StoredReport(i, owners[i])]
        /\ files = {save_file("r.pdf", owners[i], i).path : i \in 1..Len(owners)}
        /\ index = StoredIndex(owners, Len(owners))
        /\ completions = {}
        /\ serial = [reports |-> Len(owners), sessions |-> 2, messages |-> n]
        /\ sessions = [x \in 1..2 |->
                         LET first == IF x = 1 THEN 1 ELSE every
                             titled == first >= 1 /\ first <= n
                         IN [id |-> x, user_id |-> 1,
                             title |-> IF titled THEN Some("m" \o ToString(first)) ELSE None,
                             updated_at |-> IF titled THEN 1 ELSE 0]]
        /\ messages = [i \in 1..n |-> StoredMessage(i, every)]
        /\ users = Users
        /\ up = <<>>
        /\ turn = [t \in 1..1 |-> IdleTurn]
        /\ calls = <<>>
        /\ indexes = PINECONE_INDEX_NAME :> ServerlessIndex

SpecPrompt == InitPrompt /\ [][NextChat]_vars

\* one turn of a request that does not stream
InitSend ==
    /\ EmptyStore
    /\ indexes = PINECONE_INDEX_NAME :> ServerlessIndex
    /\ up = <<>>
    /\ turn = [t \in 1..1 |-> IdleTurn]
    /\ calls = <<>>

NextSend == NextChat \/ \E t \in DOMAIN turn : SendMessageReturn(t)

SpecSend == InitSend /\ [][NextSend]_vars

\* MaxCalls processes start the service over a project without indexes
InitService ==
    /\ EmptyStore
    /\ indexes = <<>>
    /\ up = <<>>
    /\ turn = <<>>
    /\ calls = [c \in 1..MaxCalls |-> IdleCall]

NextService ==
    \/ \E c \in DOMAIN calls : EnsureList(c)
    \/ \E c \in DOMAIN calls : EnsureCreate(c)
    \/ \E c \in DOMAIN calls : OpenIndex(c)

SpecService == InitService /\ [][NextService]_vars

\* MaxTurns concurrent turns whose consumers may go away
NextStream == NextChat \/ \E t \in DOMAIN turn : CloseStream(t)

SpecStream == InitChat /\ [][NextStream]_vars

\* one upload and one turn side by side
Init ==
    /\ EmptyStore
    /\ indexes = PINECONE_INDEX_NAME :> ServerlessIndex
    /\ up = [u \in 1..1 |-> IdleUpload]
    /\ turn = [t \in 1..1 |-> IdleTurn]
    /\ calls = <<>>

Next == NextIngest \/ NextChat

Spec == Init /\ [][Next]_vars

-----------------------------------------------------------------------------
(* Properties of the ingestion pipeline *)

\* the extension of a filename as the upload contract states it: the text
\* after the last dot, lowercased (the whole name when it has no dot)
ClaimedExtension(filename) ==
    LET n == Len(filename)
        k == CHOOSE k \in 0..n :
               /\ k = 0 \/ Char(filename, k) = "."
               /\ \A j \in (k + 1)..n : Char(filename, j) # "."
    IN Lower(SubSeq(filename, k + 1, n))

MustReject(u) ==
    \/ ClaimedExtension(up[u].filename) \notin {"pdf", "jpg", "jpeg", "png"}
    \/ up[u].file_size > MAX_UPLOAD_SIZE

Received(u) == up[u].pc # "idle"

Finished(u) == up[u].pc = "done"

Persisted(u) == reports[up[u].report[1].id]

StatusStep ==
    \A r \in DOMAIN reports' :
        /\ reports'[r].processing_status \in {"pending", "completed", "failed"}
        /\ IF r \in DOMAIN reports
           THEN \/ reports'[r].processing_status = reports[r].processing_status
                \/ /\ reports[r].processing_status = "pending"
                   /\ reports'[r].processing_status \in {"completed", "failed"}
           ELSE reports'[r].processing_status = "pending"

\* C1: the committed processing_status of a report is pending when the row is
\* created, is never "processing", and changes only from pending to completed
\* or from pending to failed, whatever operation runs afterwards.
C1_StatusMonotone == [][StatusStep]_vars

\* C1 witness: two uploads have run to their end, one report completed and
\* one failed.
C1_Witness ==
    \E a, b \in DOMAIN reports :
        /\ reports[a].processing_status = "completed"
        /\ reports[b].processing_status = "failed"
        /\ \A u \in DOMAIN up : Finished(u)

\* C6: an upload whose extension is not allowed or whose size exceeds the
\* ceiling is answered 400 and has written no file, created no report and
\* made no index entry; files, reports and index entries all stem from
\* uploads that were not rejected.
C6_RejectedUploadLeavesNothing ==
    /\ \A u \in DOMAIN up :
         Received(u) /\ MustReject(u) =>
            /\ Finished(u)
            /\ up[u].response # None
            /\ up[u].response[1].status_code = 400
            /\ up[u].file_path = None
            /\ up[u].report = None
            /\ up[u].indexed = "no"
    /\ files = {up[u].file_path[1] : u \in {v \in DOMAIN up : up[v].file_path # None}}
    /\ DOMAIN reports = {up[u].report[1].id : u \in {v \in DOMAIN up : up[v].report # None}}
    /\ \A d \in DOMAIN index :
         \E u \in DOMAIN up : /\ up[u].indexed = "ok"
                              /\ ~MustReject(u)
                              /\ index[d].metadata.report_id = up[u].report[1].id

\* C6 witness: one upload rejected for its size alone and one for its
\* extension alone, next to each other.
C6_Witness ==
    \E u, v \in DOMAIN up :
        /\ Finished(u) /\ up[u].filename = "r.pdf" /\ up[u].file_size > MAX_UPLOAD_SIZE
        /\ Finished(v) /\ up[v].filename = "r.pdf.exe" /\ up[v].file_size <= MAX_UPLOAD_SIZE

\* C7: every upload that passes validation ends with a persisted report and
\* the response 201 carrying it, with the status completed or failed.
C7_ValidUploadYieldsReport ==
    \A u \in DOMAIN up :
        Finished(u) /\ ~MustReject(u) =>
            /\ up[u].response[1].status_code = 201
            /\ up[u].response[1].body.processing_status \in {"completed", "failed"}
            /\ up[u].response[1].body.id \in DOMAIN reports
            /\ reports[up[u].response[1].body.id] = up[u].response[1].body

\* C8: an upload whose extraction yields "" never calls the completion
\* endpoint, gets no summary and no index entry, and ends completed.
C8_EmptyExtraction ==
    \A u \in DOMAIN up :
        up[u].report # None /\ up[u].report[1].extracted_text = Some("") =>
            /\ <<"analysis", "upload", u>> \notin completions
            /\ up[u].report[1].ai_summary = None
            /\ \A d \in DOMAIN index : index[d].metadata.report_id # up[u].report[1].id
            /\ Finished(u) =>
                 /\ up[u].response[1].status_code = 201
                 /\ Persisted(u).processing_status = "completed"
                 /\ Persisted(u).ai_summary = None

\* C8 witness: a readable PDF whose pages hold only white space has been
\* uploaded and the upload has returned.
C8_Witness ==
    \E u \in DOMAIN up :
        /\ Finished(u)
        /\ up[u].report # None
        /\ up[u].report[1].file_type = "pdf"
        /\ up[u].doc = Some([readable |-> TRUE, pages |-> <<" ">>])
        /\ up[u].report[1].extracted_text = Some("")

Unreadable(u) == up[u].doc # None /\ ~up[u].doc[1].readable

\* C9: when the document cannot be read, an image upload ends completed with
\* the extracted text "" and a PDF upload ends failed.
C9_OcrFailureTolerated ==
    \A u \in DOMAIN up :
        Finished(u) /\ Unreadable(u) =>
            IF Persisted(u).file_type \in {"jpg", "jpeg", "png"}
            THEN /\ Persisted(u).extracted_text = Some("")
                 /\ Persisted(u).processing_status = "completed"
            ELSE /\ Persisted(u).file_type = "pdf"
                 /\ Persisted(u).processing_status = "failed"

\* C9 witness: an unreadable image and an unreadable PDF have both been
\* uploaded.
C9_Witness ==
    \E u, v \in DOMAIN up :
        /\ Finished(u) /\ Unreadable(u) /\ Persisted(u).file_type = "png"
        /\ Finished(v) /\ Unreadable(v) /\ Persisted(v).file_type = "pdf"

\* C10: whenever the completion endpoint answers the analysis with anything
\* but the expected JSON object, the report ends completed, with the raw
\* answer as its summary and empty lists elsewhere.
C10_UnexpectedShapeIsWrapped ==
    \A u \in DOMAIN up :
        (/\ Finished(u)
         /\ up[u].reply # None
         /\ up[u].reply[1].ok
         /\ up[u].reply[1].content # WellFormedReply) =>
            /\ Persisted(u).processing_status = "completed"
            /\ Persisted(u).ai_summary = Some(up[u].reply[1].content)
            /\ Persisted(u).ai_insights =
                 Some([summary |-> up[u].reply[1].content, key_findings |-> <<>>,
                       abnormal_values |-> <<>>, recommendations |-> <<>>,
                       risk_assessment |-> "unknown"])

\* C11: when the indexing of an upload fails, the upload still answers 201
\* with the report, whose committed status is completed and whose extracted
\* text, metrics and summary are the ones the pipeline computed; the index
\* holds no entry for it.
C11_IndexFailureLeavesReport ==
    \A u \in DOMAIN up :
        Finished(u) /\ up[u].indexed = "failed" =>
            LET text == extract_text(up[u].doc[1], Persisted(u).file_type).text
                analysis == analyze_medical_report(up[u].reply[1]).analysis.value
            IN /\ up[u].response[1].status_code = 201
               /\ up[u].response[1].body = Persisted(u)
               /\ Persisted(u).processing_status = "completed"
               /\ Persisted(u).extracted_text = Some(text)
               /\ Persisted(u).parsed_metrics = Some(parse_medical_metrics(text))
               /\ Persisted(u).ai_summary = Some(DictGet(analysis, "summary", ""))
               /\ Persisted(u).ai_insights = Some(analysis)
               /\ \A d \in DOMAIN index : index[d].metadata.report_id # Persisted(u).id

\* C11 witness: an upload whose indexing failed has returned, next to one
\* whose indexing succeeded.
C11_Witness ==
    \E u, v \in DOMAIN up :
        /\ Finished(u) /\ up[u].indexed = "failed"
        /\ Finished(v) /\ up[v].indexed = "ok"

-----------------------------------------------------------------------------
(* Properties of the knowledge index *)

\* the successful upserts of the report of a user, by slot
Upserts(user, report) ==
    {c \in DOMAIN calls : /\ calls[c].op = "upsert_user_report"
                          /\ calls[c].response = Some(TRUE)
                          /\ calls[c].args.user_id = user
                          /\ calls[c].args.report_id = report}

EntriesOf(user, report) ==
    {d \in DOMAIN index : /\ index[d].metadata.user_id = user
                          /\ index[d].metadata.report_id = report}

\* the text an upsert embeds: the summary, or the report text without one
Embedded(c) ==
    IF calls[c].args.report_summary \notin {None, Some("")}
    THEN calls[c].args.report_summary[1]
    ELSE calls[c].args.report_text

\* C12: after any number of upserts the index holds, for each (user, report)
\* that was upserted, exactly one entry, made from the text of the latest
\* upsert, and it holds no entry for a pair that was not upserted.
C12_ReindexOverwrites ==
    \A user \in Users, report \in 1..MaxReportId :
        IF Upserts(user, report) = {}
        THEN EntriesOf(user, report) = {}
        ELSE LET latest == CHOOSE c \in Upserts(user, report) :
                              \A b \in Upserts(user, report) : b <= c
             IN /\ Cardinality(EntriesOf(user, report)) = 1
                /\ \A d \in EntriesOf(user, report) :
                     /\ index[d].values = generate_embedding(Embedded(latest))
                     /\ index[d].metadata.text = Embedded(latest)
                     /\ index[d].metadata.type = "user_report"

\* C12 witness: the same (user, report) was upserted twice with different
\* text, the report of another user in between.
C12_Witness ==
    \E a, b, c \in DOMAIN calls :
        /\ a < b /\ b < c
        /\ a \in Upserts(1, 1) /\ c \in Upserts(1, 1) /\ b \in Upserts(2, 1)
        /\ Embedded(a) # Embedded(c)

-----------------------------------------------------------------------------
(* Properties of deletion *)

NoUploadInFlight == \A u \in DOMAIN up : up[u].pc \in {"idle", "done"}

\* C13: once delete_report has answered 204, with no upload in flight, the
\* report's row and every index entry made from the report are gone.
C13_DeleteReportRemovesAll ==
    \A c \in DOMAIN calls :
        (/\ calls[c].op = "delete_report"
         /\ calls[c].response = Some(204)
         /\ NoUploadInFlight) =>
            /\ calls[c].args.report_id \notin DOMAIN reports
            /\ \A d \in DOMAIN index :
                 index[d].metadata.report_id # calls[c].args.report_id

\* C14: every message belongs to a session that exists, and every session
\* and every report to a user that exists.
C14_ReferentialIntegrity ==
    /\ \A m \in DOMAIN messages : messages[m].session_id \in DOMAIN sessions
    /\ \A x \in DOMAIN sessions : sessions[x].user_id \in users
    /\ \A r \in DOMAIN reports : reports[r].user_id \in users

\* C14 witness: the account of a user was deleted after the user had
\* uploaded a report and a message of a turn of this user had been saved.
C14_Witness ==
    \E c \in DOMAIN calls, t \in DOMAIN turn, u \in DOMAIN up :
        /\ calls[c].op = "delete_my_account"
        /\ calls[c].response = Some(204)
        /\ calls[c].args.user_id \notin users
        /\ turn[t].user_id = calls[c].args.user_id
        /\ turn[t].user_message_id # None
        /\ up[u].user_id = calls[c].args.user_id
        /\ up[u].report # None

\* the request in slot c is answered in this step, with `status`
Answers(c, op, status) ==
    /\ calls[c].pc = "idle"
    /\ calls'[c].op = op
    /\ calls'[c].response = Some(status)

OwnEntries(idx, user) ==
    {d \in DOMAIN idx : /\ idx[d].metadata.user_id = user
                        /\ idx[d].metadata.type = "user_report"}

\* C15: when delete_my_account answers 204 the index holds no user-report
\* entry of the user, and when it answers 500 the user and the user's index
\* entries are as they were.
C15_AccountDeletionPurgesIndex ==
    [][\A c \in DOMAIN calls :
          /\ Answers(c, "delete_my_account", 204) =>
                OwnEntries(index', calls'[c].args.user_id) = {}
          /\ Answers(c, "delete_my_account", 500) =>
                /\ calls'[c].args.user_id \in users'
                /\ \A d \in OwnEntries(index, calls'[c].args.user_id) :
                     d \in DOMAIN index' /\ index'[d] = index[d]]_vars

-----------------------------------------------------------------------------
(* Properties of retrieval *)

\* C16: the matches retrieved for the turn of a user hold no user-report
\* entry of another user.
C16_RetrievalScopedByOwner ==
    \A t \in DOMAIN turn :
        \A i \in 1..Len(turn[t].results) :
            turn[t].results[i].metadata.type = "user_report" =>
                turn[t].results[i].metadata.user_id = turn[t].user_id

\* C17: the matches retrieved for a turn sent with include_reports=false
\* hold no user-report entry.
C17_NoReportsWhenExcluded ==
    \A t \in DOMAIN turn :
        ~turn[t].include_reports =>
            \A i \in 1..Len(turn[t].results) :
                turn[t].results[i].metadata.type # "user_report"

-----------------------------------------------------------------------------
(* Properties of the prompt *)

\* the turn has assembled its prompt and not yet saved an answer
Assembled(t) == turn[t].pc \in {"open", "streaming"}

\* the stored messages of the turn's session, oldest first
Chronological(t) ==
    LET ids == Ascending({m \in DOMAIN messages :
                            messages[m].session_id = turn[t].session[1].id})
    IN [i \in 1..Len(ids) |->
          [role |-> messages[ids[i]].role, content |-> messages[ids[i]].content]]

\* the part of the prompt between the system message and the question
HistorySection(t) == SubSeq(turn[t].messages, 2, Len(turn[t].messages) - 1)

ReportsSection(t) ==
    "\n\nUser's Medical Reports:\n"
    \o Join("\n\n", get_user_reports_summary(turn[t].user_id, ReportsLimit))

KnowledgeSection(t) ==
    "\n\nRelevant Medical Knowledge:\n"
    \o Join("\n\n", [i \in 1..Len(turn[t].results) |->
                       ToString(i) \o ". " \o turn[t].results[i].text])

\* C18: the prompt begins with one system message, whose content is the
\* preamble, then the report summaries if any, then the retrieved knowledge
\* if any; then comes a run of the session's messages oldest first; the
\* question is the last message.
C18_PromptOrder ==
    \A t \in DOMAIN turn :
        Assembled(t) =>
            LET prompt == turn[t].messages
                knowledge == IF turn[t].results = <<>> THEN "" ELSE KnowledgeSection(t)
            IN /\ Len(prompt) >= 2
               /\ prompt[1].role = "system"
               /\ \/ prompt[1].content = SystemPrompt \o knowledge
                  \/ /\ turn[t].include_reports
                     /\ get_user_reports_summary(turn[t].user_id, ReportsLimit) # <<>>
                     /\ prompt[1].content = SystemPrompt \o ReportsSection(t) \o knowledge
               /\ prompt[Len(prompt)] = [role |-> "user", content |-> turn[t].message]
               /\ \E first \in 1..Len(Chronological(t)) + 1 :
                    HistorySection(t) =
                        SubSeq(Chronological(t), first, first + Len(HistorySection(t)) - 1)

\* C18 witness: a prompt with report summaries, retrieved knowledge and
\* three messages of history.
C18_Witness ==
    \E t \in DOMAIN turn :
        /\ Assembled(t)
        /\ turn[t].results # <<>>
        /\ turn[t].messages[1].content =
             SystemPrompt \o ReportsSection(t) \o KnowledgeSection(t)
        /\ Len(HistorySection(t)) >= 3

\* C19: the history in the prompt is empty when the history could not be
\* read, and otherwise is the last 10 stored messages of the turn's session
\* (all of them when there are fewer), oldest first.
C19_HistoryWindow ==
    \A t \in DOMAIN turn :
        Assembled(t) =>
            LET stored == Chronological(t)
                shown == HistorySection(t)
                skipped == IF Len(stored) > 10 THEN Len(stored) - 10 ELSE 0
            IN \/ shown = <<>>
               \/ /\ Len(shown) = Len(stored) - skipped
                  /\ \A i \in 1..Len(shown) : shown[i] = stored[skipped + i]

\* C19 witness: a prompt with 10 messages of history out of more than 20
\* stored in the session, another session holding messages stored in between.
C19_Witness ==
    \E t \in DOMAIN turn :
        /\ Assembled(t)
        /\ Len(HistorySection(t)) = 10
        /\ Len(Chronological(t)) > 20
        /\ \E m \in DOMAIN messages : /\ messages[m].session_id # turn[t].session[1].id
                                      /\ m > 20

-----------------------------------------------------------------------------
(* Properties of a chat turn *)

DoneEvents(t) == {i \in 1..Len(turn[t].events) : turn[t].events[i].done}

Ended(t) == turn[t].pc = "done"

Errored(t) ==
    /\ Ended(t)
    /\ turn[t].events # <<>>
    /\ "error" \in DOMAIN Last(turn[t].events)

\* one more step of the turn t
TurnStep(t) ==
    \/ \E message \in Questions : SaveUserMessage(t, message)
    \/ GenerateSessionTitle(t)
    \/ \E include_reports \in BOOLEAN : AssembleContext(t, include_reports)
    \/ OpenStream(t)
    \/ StreamFrame(t)
    \/ StreamError(t)
    \/ SaveAssistantMessage(t)

\* C2: no turn raises; an event with done=true is the last event of its
\* turn, so there is at most one; a turn that has ended has emitted one; and
\* a turn that has begun and not ended can always take its next step.
C2_OneTerminalEvent ==
    \A t \in DOMAIN turn :
        /\ ~turn[t].raised
        /\ \A i \in DoneEvents(t) : i = Len(turn[t].events)
        /\ Ended(t) <=> DoneEvents(t) # {}
        /\ turn[t].pc \notin {"idle", "done"} => ENABLED TurnStep(t)

\* C2 witness: a turn has ended with the error event after two fragments,
\* and another has ended with the error event alone.
C2_Witness ==
    \E s, t \in DOMAIN turn :
        /\ Errored(s) /\ Len(turn[s].events) = 3
        /\ Errored(t) /\ Len(turn[t].events) = 1

RECURSIVE Fragments(_)
Fragments(events) ==
    IF events = <<>>
    THEN ""
    ELSE (IF Head(events).done THEN "" ELSE Head(events).content)
         \o Fragments(Tail(events))

Answered(t) ==
    /\ Ended(t)
    /\ turn[t].events # <<>>
    /\ "message_id" \in DOMAIN Last(turn[t].events)

\* C3: when the last event of a turn carries a message_id, the assistant
\* message stored under that id holds the concatenation, in emission order,
\* of the contents of the turn's events with done=false.
C3_StreamEqualsPersisted ==
    \A t \in DOMAIN turn :
        Answered(t) =>
            LET id == Last(turn[t].events).message_id
            IN /\ id \in DOMAIN messages
               /\ messages[id].role = "assistant"
               /\ messages[id].session_id = turn[t].session[1].id
               /\ messages[id].content = Fragments(turn[t].events)

\* C3 witness: one turn answered with two fragments and one answered with
\* none.
C3_Witness ==
    \E s, t \in DOMAIN turn :
        /\ Answered(s) /\ Len(turn[s].events) = 3
        /\ Answered(t) /\ Len(turn[t].events) = 1

Owned(id, user) == id \in DOMAIN sessions /\ sessions[id].user_id = user

\* the turn t begins, supplying a session id that is not a session of its user
UnknownSessionStep(t) ==
    /\ turn[t].pc = "idle"
    /\ turn'[t].pc # "idle"
    /\ turn'[t].session_id # None
    /\ ~Owned(turn'[t].session_id[1], turn'[t].user_id)

\* C5: a turn that supplies a session id which is not a session of its user
\* creates no session, saves no message, invokes no completion and yields
\* the error event alone.
C5_UnknownSessionCreatesNothing ==
    [][\A t \in DOMAIN turn :
          UnknownSessionStep(t) =>
             /\ sessions' = sessions
             /\ messages' = messages
             /\ completions' = completions
             /\ turn'[t].pc = "done"
             /\ Len(turn'[t].events) = 1
             /\ turn'[t].events[1].done
             /\ "error" \in DOMAIN turn'[t].events[1]]_vars

\* the turn got its session by creating it
Creating(t) ==
    /\ turn[t].session # None
    /\ turn[t].session_id # Some(turn[t].session[1].id)

SavedBy(t) == {m \in DOMAIN messages : messages[m].turn = t}

\* C20: a turn sent without a session id that ended with a message_id has
\* created a session of its own, owned by the caller; it has saved two
\* messages, both in that session, the user message and then the assistant
\* message; its last event carries the ids of that session and of the
\* assistant message.  Sessions are created by such turns only, one each.
C20_NewSessionTurn ==
    /\ Cardinality(DOMAIN sessions) = Cardinality({t \in DOMAIN turn : Creating(t)})
    /\ \A t \in DOMAIN turn :
         Answered(t) /\ turn[t].session_id = None =>
            LET session == turn[t].session[1].id
                final == Last(turn[t].events)
            IN /\ session \in DOMAIN sessions
               /\ sessions[session].user_id = turn[t].user_id
               /\ \A other \in DOMAIN turn \ {t} :
                    Creating(other) => turn[other].session[1].id # session
               /\ SavedBy(t) = {turn[t].user_message_id[1], final.message_id}
               /\ turn[t].user_message_id[1] < final.message_id
               /\ messages[turn[t].user_message_id[1]].role = "user"
               /\ messages[final.message_id].role = "assistant"
               /\ \A m \in SavedBy(t) : messages[m].session_id = session
               /\ final.session_id = session

\* C20 witness: two turns sent without a session id have both been answered.
C20_Witness ==
    \E s, t \in DOMAIN turn :
        /\ s # t
        /\ Answered(s) /\ turn[s].session_id = None
        /\ Answered(t) /\ turn[t].session_id = None

-----------------------------------------------------------------------------
(* Properties of concurrent turns *)

\* the turn has its session and the request named none
Omitted(t) == turn[t].session # None /\ turn[t].session_id = None

\* C21: two turns of one user that both came without a session id hold two
\* distinct sessions, both created for that user, however their steps
\* interleave; every message a turn has saved is in the session of that turn,
\* and the session of each holds no message of the other.
C21_ConcurrentTurnsTwoSessions ==
    \A s, t \in DOMAIN turn :
        s # t /\ Omitted(s) /\ Omitted(t) /\ turn[s].user_id = turn[t].user_id =>
            LET mine == turn[t].session[1].id
                other == turn[s].session[1].id
            IN /\ mine # other
               /\ mine \in DOMAIN sessions
               /\ sessions[mine].user_id = turn[t].user_id
               /\ \A m \in SavedBy(t) : messages[m].session_id = mine
               /\ \A m \in SavedBy(s) : messages[m].session_id # mine

\* C21 witness: two turns of one user without a session id were both
\* answered, the one that created its session first having saved its user
\* message last.
C21_Witness ==
    \E s, t \in DOMAIN turn :
        /\ Omitted(s) /\ Omitted(t) /\ turn[s].user_id = turn[t].user_id
        /\ Answered(s) /\ Answered(t)
        /\ turn[s].session[1].id < turn[t].session[1].id
        /\ turn[s].user_message_id[1] > turn[t].user_message_id[1]

\* C22: when a turn has been answered and its session has its title stored,
\* the session's updated_at is later than it was when the turn fetched or
\* created the session.
C22_EveryTurnTouchesSession ==
    \A t \in DOMAIN turn :
        /\ Answered(t)
        /\ turn[t].session[1].id \in DOMAIN sessions
        /\ sessions[turn[t].session[1].id].title # None
        => sessions[turn[t].session[1].id].updated_at > turn[t].session[1].updated_at

-----------------------------------------------------------------------------
(* Properties of the request that does not stream *)

Responded(t) == turn[t].response # None

\* C23: a request without streaming whose turn failed after its user message
\* was saved is answered 200 with the text of the error event as content;
\* one whose turn ended with a message_id is answered 200 with the assistant
\* message stored under that id and with the id of the session.
C23_NonStreamingNeverFails ==
    \A t \in DOMAIN turn :
        Responded(t) =>
            LET response == turn[t].response[1]
                final == Last(turn[t].events)
            IN /\ Errored(t) /\ turn[t].user_message_id # None =>
                    /\ response.status = 200
                    /\ response.message.content = final.content
               /\ Answered(t) =>
                    /\ response.status = 200
                    /\ final.message_id \in DOMAIN messages
                    /\ messages[final.message_id].role = "assistant"
                    /\ response.message = ChatMessageResponse(messages[final.message_id])
                    /\ response.session_id = Some(turn[t].session[1].id)

\* the part of C23 about the answered turn
SuccessReadsBack ==
    \A t \in DOMAIN turn :
        Responded(t) /\ Answered(t) =>
            /\ turn[t].response[1].status = 200
            /\ turn[t].response[1].message.content = Fragments(turn[t].events)

-----------------------------------------------------------------------------
(* Properties of the service's start *)

Started(c) == calls[c].pc = "done" /\ calls[c].row # None

\* the process listed the indexes and found the configured one
FoundPresent(c) ==
    calls[c].row # None /\ PINECONE_INDEX_NAME \in calls[c].row[1].existing_indexes

\* the process asked for the index after another had created it
LostRace(c) == calls[c].row # None /\ calls[c].row[1].create = "conflict"

\* C24: the project never holds an index other than the configured one, and
\* that one has dimension 384 and the cosine metric and was created once; at
\* most one process's create call succeeded; a process that has started the
\* service has the index; a process that found the index present or lost
\* the creation race starts the service without raising, and no step of it
\* changes the index.
C24_IndexCreatedOnce ==
    /\ DOMAIN indexes \subseteq {PINECONE_INDEX_NAME}
    /\ \A name \in DOMAIN indexes :
         indexes[name] = [dimension |-> 384, metric |-> "cosine", created |-> 1]
    /\ Cardinality({c \in DOMAIN calls :
                      calls[c].row # None /\ calls[c].row[1].create = "created"}) <= 1
    /\ \A c \in DOMAIN calls :
         /\ calls[c].response = Some([status |-> "initialized"]) =>
                DOMAIN indexes = {PINECONE_INDEX_NAME}
         /\ FoundPresent(c) \/ LostRace(c) =>
                /\ DOMAIN indexes = {PINECONE_INDEX_NAME}
                /\ calls[c].response \in {None, Some([status |-> "initialized"])}
                /\ calls[c].pc = "open" =>
                      ENABLED (OpenIndex(c) /\ indexes' = indexes
                               /\ calls'[c].response = Some([status |-> "initialized"]))

\* C24 witness: three processes have started the service, one having
\* created the index, one having lost the creation race and one having found
\* the index present.
C24_Witness ==
    \E a, b, c \in DOMAIN calls :
        /\ Started(a) /\ calls[a].row[1].create = "created"
        /\ Started(b) /\ LostRace(b)
        /\ Started(c) /\ FoundPresent(c)
        /\ \A x \in {a, b, c} : calls[x].response = Some([status |-> "initialized"])

-----------------------------------------------------------------------------
(* Properties of the order of a turn's steps *)

Closed(t) == turn[t].pc = "closed"

AssistantMessages(t) == {m \in SavedBy(t) : messages[m].role = "assistant"}

\* C25: while a turn streams, the only message it has saved is its user
\* message; an assistant message of a turn exists only when the turn's
\* stream was read to its end, and holds all the fragments emitted; a turn
\* whose stream broke or whose consumer went away mid-stream has no
\* assistant message, then and later.
C25_AssistantSavedAfterStream ==
    \A t \in DOMAIN turn :
        /\ turn[t].pc = "streaming" => SavedBy(t) = {turn[t].user_message_id[1]}
        /\ AssistantMessages(t) # {} =>
              /\ Answered(t)
              /\ turn[t].stream = <<>>
              /\ \A m \in AssistantMessages(t) :
                    messages[m].content = Fragments(turn[t].events)
        /\ Errored(t) \/ Closed(t) => AssistantMessages(t) = {}

\* C25 witness: one turn was closed by its consumer after a fragment, with
\* more to come, and another turn's stream broke after a fragment.
C25_Witness ==
    \E s, t \in DOMAIN turn :
        /\ Closed(s) /\ turn[s].events # <<>> /\ turn[s].stream # <<>>
        /\ Errored(t) /\ Len(turn[t].events) >= 2

\* the completion endpoint was called for the turn
Invoked(t) == <<"stream", "turn", t>> \in completions

\* the user message of the turn is in the table
UserMessageSaved(t) ==
    /\ turn[t].user_message_id # None
    /\ turn[t].user_message_id[1] \in DOMAIN messages
    /\ messages[turn[t].user_message_id[1]].role = "user"
    /\ messages[turn[t].user_message_id[1]].turn = t

\* the last event of an answered turn names a stored assistant message of
\* the turn, saved after its user message
AnswerSaved(t) ==
    Answered(t) =>
        LET id == Last(turn[t].events).message_id
        IN /\ id \in AssistantMessages(t)
           /\ UserMessageSaved(t)
           /\ turn[t].user_message_id[1] < id

\* C26 as stated: a turn for which the completion endpoint was called, or
\* which has emitted any event, has its user message saved; the last event
\* of an answered turn names an assistant message saved before it.
C26_UserMessageFirst ==
    \A t \in DOMAIN turn :
        /\ Invoked(t) \/ turn[t].events # <<>> => UserMessageSaved(t)
        /\ AnswerSaved(t)

\* C26 amended: a turn for which the completion endpoint was called, or
\* which has emitted an event other than the error event, has its user
\* message saved; a turn without a saved user message has emitted at most
\* the error event, and has ended if it emitted it; the last event of an
\* answered turn names an assistant message saved before it.
C26_UserMessageBeforeAnswer ==
    \A t \in DOMAIN turn :
        /\ Invoked(t) => UserMessageSaved(t)
        /\ (\E i \in DOMAIN turn[t].events : "error" \notin DOMAIN turn[t].events[i])
              => UserMessageSaved(t)
        /\ ~UserMessageSaved(t) => /\ Len(turn[t].events) <= 1
                                   /\ turn[t].events # <<>> => Errored(t)
        /\ AnswerSaved(t)

\* C26 witness: one turn was answered after two fragments, and another
\* ended with the error event before its user message was saved.
C26_Witness ==
    \E s, t \in DOMAIN turn :
        /\ Answered(s) /\ Invoked(s) /\ Len(turn[s].events) = 3
        /\ Errored(t) /\ ~UserMessageSaved(t)

-----------------------------------------------------------------------------
(* Properties of a session's messages *)

\* the ids of the session's messages in the order of their creation
Conversation(x) == Ascending({m \in DOMAIN messages : messages[m].session_id = x})

\* the turns that have saved a message in the session
TurnsOn(x) == {t \in DOMAIN turn : \E m \in SavedBy(t) : messages[m].session_id = x}

\* every turn on the session was answered, and no two of them overlapped
OneAfterAnother(x) ==
    /\ \A t \in TurnsOn(x) : Answered(t)
    /\ \A s, t \in TurnsOn(x) :
         s # t => \/ \A m \in SavedBy(s), n \in SavedBy(t) : m < n
                  \/ \A m \in SavedBy(s), n \in SavedBy(t) : n < m

\* C27 as stated: in every session the first message is a user message and
\* no two consecutive messages have the same role.
C27_RolesAlternate ==
    \A x \in DOMAIN sessions :
        LET ids == Conversation(x)
        IN /\ ids # <<>> => messages[ids[1]].role = "user"
           /\ \A i \in 1..(Len(ids) - 1) :
                messages[ids[i]].role # messages[ids[i + 1]].role

\* C27 amended: in every session the first message is a user message; every
\* assistant message comes after the user message of its own turn, in the
\* same session; and when the turns on a session were all answered, one
\* after another, its messages alternate user, assistant.
C27_RolesAlternateInNormalTurns ==
    \A x \in DOMAIN sessions :
        LET ids == Conversation(x)
        IN /\ ids # <<>> => messages[ids[1]].role = "user"
           /\ \A i \in 1..Len(ids) :
                messages[ids[i]].role = "assistant" =>
                    \E j \in 1..(i - 1) :
                        /\ messages[ids[j]].role = "user"
                        /\ messages[ids[j]].turn = messages[ids[i]].turn
           /\ OneAfterAnother(x) =>
                \A i \in 1..Len(ids) :
                    messages[ids[i]].role = IF i % 2 = 1 THEN "user" ELSE "assistant"

\* C27 witness: two turns on one session were answered one after the other.
C27_Witness ==
    \E x \in DOMAIN sessions :
        /\ OneAfterAnother(x)
        /\ Cardinality(TurnsOn(x)) = 2
        /\ Len(Conversation(x)) = 4

-----------------------------------------------------------------------------
(* Properties of the question in the prompt *)

\* the places of the prompt that hold the question of the turn
QuestionPlaces(t) ==
    {i \in DOMAIN turn[t].messages :
        turn[t].messages[i] = [role |-> "user", content |-> turn[t].message]}

\* C28: in the prompt of a turn the question of the turn stands once, as the
\* last message; the history before it holds none of the turn's own
\* messages.
C28_QuestionOnceAndLast ==
    \A t \in DOMAIN turn :
        Assembled(t) =>
            /\ QuestionPlaces(t) = {Len(turn[t].messages)}
            /\ \A i \in DOMAIN HistorySection(t) :
                 HistorySection(t)[i].content # turn[t].message

-----------------------------------------------------------------------------
(* Properties of the terminal event *)

\* C29: the last event of a turn that has ended and had its session carries
\* the id of that session, whether the turn was answered or failed.
C29_TerminalEventNamesSession ==
    \A t \in DOMAIN turn :
        Ended(t) /\ turn[t].session # None =>
            /\ "session_id" \in DOMAIN Last(turn[t].events)
            /\ DictGet(Last(turn[t].events), "session_id", 0) = turn[t].session[1].id

-----------------------------------------------------------------------------
(* Properties of a failed report *)

\* the entries of the index made for the report
ReportEntries(report_id) ==
    {d \in DOMAIN index : /\ index[d].metadata.type = "user_report"
                          /\ index[d].metadata.report_id = report_id}

\* C30: a stored report whose status is failed has no summary and no
\* insights, and the index has no entry for it; every user-report entry of
\* the index belongs to a report that an upload brought to the status
\* completed with a summary that is not empty.
C30_FailedReportHasNoSummary ==
    /\ \A r \in DOMAIN reports :
         reports[r].processing_status = "failed" =>
            /\ reports[r].ai_summary = None
            /\ reports[r].ai_insights = None
            /\ ReportEntries(r) = {}
    /\ \A d \in DOMAIN index :
         index[d].metadata.type = "user_report" =>
            \E u \in DOMAIN up :
                /\ up[u].report # None
                /\ up[u].report[1].id = index[d].metadata.report_id
                /\ up[u].user_id = index[d].metadata.user_id
                /\ up[u].report[1].processing_status = "completed"
                /\ TruthyStr(up[u].report[1].ai_summary)

\* C30 witness: one stored report failed in the analysis, after its text was
\* extracted, and another report has its entry in the index.
C30_Witness ==
    \E r, s \in DOMAIN reports :
        /\ reports[r].processing_status = "failed"
        /\ reports[r].extracted_text # None
        /\ ReportEntries(s) # {}

====
